---- MODULE Spec2Model ----
(***************************************************************************)
(* Model of the preview tooling of the-kunai:                              *)
(*   - getAllCombinations / formatJSX / ComponentCombinationBrowser        *)
(*     (components/utils/preview, src/unnamed/part_000)                    *)
(*   - ComponentPlayground.generateJSXCode (components/utils/playground)   *)
(*                                                                         *)
(* JavaScript values are tagged pairs <<typeTag, payload>>.  A string is a *)
(* sequence of one-character strings, so that formatting is computed       *)
(* character by character.  A JavaScript object is the sequence of its     *)
(* own enumerable <<key, value>> entries in insertion order, which is the  *)
(* order Object.keys / Object.entries / spread visit them in (property     *)
(* names are JSX attribute names, i.e. never integer-like).                *)
(***************************************************************************)
EXTENDS Integers, Sequences, FiniteSets, TLC

VARIABLES
    options,        \* propOptions handed to ComponentCombinationBrowser
    combinations,   \* useMemo(() => getAllCombinations(propOptions), [propOptions])
    rendered,       \* whether the enumeration has been computed for these options
    pc,             \* position of a stepwise run of getAllCombinations
    stack,          \* call stack of combine(): one frame per active call
    result,         \* value returned by the last finished stepwise call
    prev,           \* value returned by the stepwise call before that
    calls,          \* number of finished stepwise calls
    name,           \* component name handed to the serializers
    props,          \* property set handed to the serializers
    fmtOut,         \* outcome of formatJSX(name, props)
    genOut,         \* outcome of generateJSXCode() with currentProps = props
    browser,        \* mounted ComponentCombinationBrowser instances: props and hooks
    playground,     \* mounted ComponentPlayground instances: config and hooks
    visited,        \* pages instance 1 has shown during a run of Next clicks
    clipboard       \* text last written with navigator.clipboard.writeText, or null

enumVars == <<options, combinations, rendered>>
machineVars == <<pc, stack, result, prev, calls>>
serVars == <<name, props, fmtOut, genOut>>
uiVars == <<browser, playground, visited, clipboard>>
vars == <<options, combinations, rendered, pc, stack, result, prev, calls,
          name, props, fmtOut, genOut, browser, playground, visited, clipboard>>

(***************************************************************************)
(* Bounds of the model                                                     *)
(***************************************************************************)
MaxProps == 2       \* properties in a propOptions mapping
MaxLen == 2         \* candidates in one candidate list
MaxCalls == 2       \* stepwise calls of getAllCombinations on one mapping
MaxAttrs == 2       \* properties in a property set handed to a serializer

(***************************************************************************)
(* JavaScript values                                                       *)
(***************************************************************************)
Undefined == <<"undefined", <<>>>>
Null == <<"null", <<>>>>
Bool(b) == <<"boolean", b>>
Str(s) == <<"string", s>>
Arr(xs) == <<"array", xs>>
Num(n) == <<"number", n>>
Obj(es) == <<"object", es>>
Fn == <<"function", <<>>>>
Symbol == <<"symbol", <<>>>>
\* An object that reaches itself through its own properties (a fiber, a DOM
\* node, a hand-made cycle).
Cyclic == <<"cyclic", <<>>>>

\* typeof value
typeof(v) ==
    IF v[1] \in {"null", "array", "object", "cyclic"} THEN "object" ELSE v[1]

\* ToBoolean(value)
Truthy(v) ==
    CASE v[1] \in {"undefined", "null"} -> FALSE
      [] v[1] = "boolean" -> v[2]
      [] v[1] = "string" -> v[2] # <<>>
      [] v[1] = "number" -> v[2] # 0
      [] OTHER -> TRUE

IsArray(v) == v[1] = "array"

\* Property names the model draws from.
AllNames == << <<"a">>, <<"b">>, <<"c">> >>
Names == {AllNames[i] : i \in 1..Len(AllNames)}

\* Candidate values of a property option list.
CandVals == {Str(<<"x">>), Bool(TRUE)}

(***************************************************************************)
(* Objects as ordered entry lists                                          *)
(***************************************************************************)
Range(s) == {s[i] : i \in 1..Len(s)}

\* Object.keys(o)
ObjectKeys(o) == [i \in 1..Len(o) |-> o[i][1]]

HasKey(o, k) == \E i \in 1..Len(o) : o[i][1] = k

\* o[k]
Get(o, k) == IF HasKey(o, k) THEN o[CHOOSE i \in 1..Len(o) : o[i][1] = k][2] ELSE Undefined

\* { [k]: v }: the spread of the accumulated object forgotten
SetWithoutSpread(o, k, v) == << <<k, v>> >>

\* { ...o, [k]: v }
SpreadSet(o, k, v) ==
    IF HasKey(o, k)
    THEN [i \in 1..Len(o) |-> IF o[i][1] = k THEN <<k, v>> ELSE o[i]]
    ELSE Append(o, <<k, v>>)

(***************************************************************************)
(* getAllCombinations                                                      *)
(***************************************************************************)
\* options[key] ?? []
ValuesNoDefault(opts, key) == Get(opts, key)

ValuesOf(opts, key) ==
    LET v == Get(opts, key)
    IN  IF v = Undefined \/ v = Null THEN Arr(<<>>) ELSE v

RECURSIVE combine(_, _, _)
RECURSIVE flatMapCombine(_, _, _, _, _)

\* flatMap that maps the first candidate only
flatMapFirstOnly(opts, index, current, values, j) ==
    IF j > Len(values) \/ j > 1 THEN <<>>
    ELSE combine(opts, index + 1, SpreadSet(current, ObjectKeys(opts)[index + 1], values[j]))

\* flatMap with the results of later candidates put in front
flatMapReversed(opts, index, current, values, j) ==
    IF j > Len(values) THEN <<>>
    ELSE flatMapCombine(opts, index, current, values, j + 1)
         \o combine(opts, index + 1, SpreadSet(current, ObjectKeys(opts)[index + 1], values[j]))

\* values.flatMap((value) => combine(index + 1, { ...current, [key]: value })),
\* from candidate number j (1-based) on
flatMapCombine(opts, index, current, values, j) ==
    IF j > Len(values) THEN <<>>
    ELSE combine(opts, index + 1, SpreadSet(current, ObjectKeys(opts)[index + 1], values[j]))
         \o flatMapCombine(opts, index, current, values, j + 1)

combine(opts, index, current) ==
    LET keys == ObjectKeys(opts)
    IN  IF index = Len(keys) THEN <<current>>
        ELSE flatMapCombine(opts, index, current, ValuesOf(opts, keys[index + 1])[2], 1)

\* the recursion started one property too far
getAllCombinationsFromOne(opts) ==
    IF Len(ObjectKeys(opts)) = 0 THEN <<>> ELSE combine(opts, 1, <<>>)

\* the early return for a mapping without properties left out
getAllCombinationsNoGuard(opts) == combine(opts, 0, <<>>)

getAllCombinations(opts) ==
    IF Len(ObjectKeys(opts)) = 0 THEN <<>> ELSE combine(opts, 0, <<>>)

(***************************************************************************)
(* Text                                                                    *)
(***************************************************************************)
RECURSIVE Join(_, _)
\* texts.join(sep)
Join(texts, sep) ==
    IF Len(texts) = 0 THEN <<>>
    ELSE IF Len(texts) = 1 THEN texts[1]
    ELSE texts[1] \o sep \o Join(Tail(texts), sep)

DigitChars == <<"0", "1", "2", "3", "4", "5", "6", "7", "8", "9">>

RECURSIVE NatToString(_)
NatToString(n) ==
    IF n < 10 THEN <<DigitChars[n + 1]>>
    ELSE NatToString(n \div 10) \o <<DigitChars[(n % 10) + 1]>>

\* String(n) of an integer
NumberToString(n) == IF n < 0 THEN <<"-">> \o NatToString(0 - n) ELSE NatToString(n)

(***************************************************************************)
(* JSON.stringify.  An outcome is <<"ok", text>>, <<"undefined", <<>>>>    *)
(* (nothing to encode: undefined, a function, a symbol) or                 *)
(* <<"throw", <<>>>> (TypeError: cyclic structure).                        *)
(***************************************************************************)
Ok(x) == <<"ok", x>>
NoEncoding == <<"undefined", <<>>>>
Throw == <<"throw", <<>>>>

\* JSON escape of one character of a string
EscapeChar(c) ==
    CASE c = "\"" -> <<"\\", "\"">>
      [] c = "\\" -> <<"\\", "\\">>
      [] c = "\n" -> <<"\\", "n">>
      [] OTHER -> <<c>>

RECURSIVE EscapeFrom(_, _)
EscapeFrom(str, i) ==
    IF i > Len(str) THEN <<>> ELSE EscapeChar(str[i]) \o EscapeFrom(str, i + 1)

\* the JSON text of a string
QuoteJSON(str) == <<"\"">> \o EscapeFrom(str, 1) \o <<"\"">>

RECURSIVE JSONstringify(_)
RECURSIVE StringifyElements(_, _)
RECURSIVE StringifyMembers(_, _)

\* the texts of the elements of an array from the i-th on: an element
\* without encoding is written null
StringifyElements(xs, i) ==
    IF i > Len(xs) THEN Ok(<<>>)
    ELSE LET head == JSONstringify(xs[i])
             rest == StringifyElements(xs, i + 1)
         IN  IF head = Throw \/ rest = Throw THEN Throw
             ELSE Ok(<<IF head = NoEncoding THEN <<"n", "u", "l", "l">> ELSE head[2]>>
                     \o rest[2])

\* the texts of the members of an object from the i-th on: a member without
\* encoding is left out
StringifyMembers(es, i) ==
    IF i > Len(es) THEN Ok(<<>>)
    ELSE LET head == JSONstringify(es[i][2])
             rest == StringifyMembers(es, i + 1)
         IN  IF head = Throw \/ rest = Throw THEN Throw
             ELSE IF head = NoEncoding THEN rest
             ELSE Ok(<<QuoteJSON(es[i][1]) \o <<":">> \o head[2]>> \o rest[2])

JSONstringify(v) ==
    CASE v[1] = "null" -> Ok(<<"n", "u", "l", "l">>)
      [] v[1] = "boolean" ->
            Ok(IF v[2] THEN <<"t", "r", "u", "e">> ELSE <<"f", "a", "l", "s", "e">>)
      [] v[1] = "number" -> Ok(NumberToString(v[2]))
      [] v[1] = "string" -> Ok(QuoteJSON(v[2]))
      [] v[1] \in {"undefined", "function", "symbol"} -> NoEncoding
      [] v[1] = "cyclic" -> Throw
      [] v[1] = "array" ->
            LET xs == StringifyElements(v[2], 1)
            IN  IF xs = Throw THEN Throw
                ELSE Ok(<<"[">> \o Join(xs[2], <<",">>) \o <<"]">>)
      [] v[1] = "object" ->
            LET ms == StringifyMembers(v[2], 1)
            IN  IF ms = Throw THEN Throw
                ELSE Ok(<<"{">> \o Join(ms[2], <<",">>) \o <<"}">>)

\* `${JSON.stringify(value)}`: undefined is written out as the word
TemplateOfJSON(v) ==
    LET j == JSONstringify(v)
    IN  IF j = Throw THEN Throw
        ELSE IF j = NoEncoding THEN Ok(<<"u", "n", "d", "e", "f", "i", "n", "e", "d">>)
        ELSE j

(***************************************************************************)
(* formatJSX (preview) and generateJSXCode (playground)                    *)
(***************************************************************************)
TypeofKey == <<"$", "$", "t", "y", "p", "e", "o", "f">>

\* value?.$$typeof
OptionalTypeof(v) == IF v[1] = "object" THEN Get(v[2], TypeofKey) ELSE Undefined

Indent == <<" ", " ">>
ElementPlaceholder ==
    <<"<", "R", "e", "a", "c", "t", "E", "l", "e", "m", "e", "n", "t", " ", "/", ">">>

\* the entry the map callback returns null for
NullEntry == <<"null", <<>>>>

\* the filter with the test for undefined forgotten
KeepsValueNotEmpty(e) == e[2] # Str(<<>>)

\* .filter(([_, value]) => value !== "" && value !== undefined)
KeepsValue(e) == e[2] # Str(<<>>) /\ e[2] # Undefined

FilterEntries(prs) == SelectSeq(prs, KeepsValue)

\* `  ${key}={${JSON.stringify(value)}}`
BracedEntry(key, value) ==
    LET j == TemplateOfJSON(value)
    IN  IF j = Throw THEN Throw
        ELSE Ok(Indent \o key \o <<"=", "{">> \o j[2] \o <<"}">>)

\* formatJSX's callback writing a true flag as an expression
formatEntryTrueBraced(key, value) ==
    IF typeof(value) = "string"
    THEN Ok(Indent \o key \o <<"=", "\"">> \o value[2] \o <<"\"">>)
    ELSE IF typeof(value) = "object" /\ Truthy(OptionalTypeof(value))
    THEN Ok(Indent \o key \o <<"=", "{">> \o ElementPlaceholder \o <<"}">>)
    ELSE BracedEntry(key, value)

\* formatJSX's callback without the element placeholder
formatEntryNoPlaceholder(key, value) ==
    IF typeof(value) = "boolean"
    THEN (IF value[2] THEN Ok(Indent \o key) ELSE NullEntry)
    ELSE IF typeof(value) = "string"
    THEN Ok(Indent \o key \o <<"=", "\"">> \o value[2] \o <<"\"">>)
    ELSE BracedEntry(key, value)

\* formatJSX's callback writing `  ${value ? key : ""}` for a boolean
formatEntryFalseBlank(key, value) ==
    IF typeof(value) = "boolean"
    THEN (IF value[2] THEN Ok(Indent \o key) ELSE Ok(Indent))
    ELSE IF typeof(value) = "string"
    THEN Ok(Indent \o key \o <<"=", "\"">> \o value[2] \o <<"\"">>)
    ELSE IF typeof(value) = "object" /\ Truthy(OptionalTypeof(value))
    THEN Ok(Indent \o key \o <<"=", "{">> \o ElementPlaceholder \o <<"}">>)
    ELSE BracedEntry(key, value)

\* the map callback of formatJSX
formatEntry(key, value) ==
    IF typeof(value) = "boolean"
    THEN (IF value[2] THEN Ok(Indent \o key) ELSE NullEntry)
    ELSE IF typeof(value) = "string"
    THEN Ok(Indent \o key \o <<"=", "\"">> \o value[2] \o <<"\"">>)
    ELSE IF typeof(value) = "object" /\ Truthy(OptionalTypeof(value))
    THEN Ok(Indent \o key \o <<"=", "{">> \o ElementPlaceholder \o <<"}">>)
    ELSE BracedEntry(key, value)

\* generateJSXCode's callback writing a boolean as an expression
generateEntryBooleanBraced(key, value) ==
    IF typeof(value) = "string"
    THEN Ok(Indent \o key \o <<"=", "\"">> \o value[2] \o <<"\"">>)
    ELSE BracedEntry(key, value)

\* the map callback of generateJSXCode
generateEntry(key, value) ==
    IF typeof(value) = "boolean"
    THEN (IF value[2] THEN Ok(Indent \o key) ELSE NullEntry)
    ELSE IF typeof(value) = "string"
    THEN Ok(Indent \o key \o <<"=", "\"">> \o value[2] \o <<"\"">>)
    ELSE BracedEntry(key, value)

IsOk(m) == m[1] = "ok"
TextOf(m) == m[2]

\* .map(callback).filter(Boolean) over the kept entries: the attribute list,
\* or the exception of the first callback that raised
formatAttributes(prs) ==
    LET kept == FilterEntries(prs)
        mapped == [i \in 1..Len(kept) |-> formatEntry(kept[i][1], kept[i][2])]
    IN  IF \E i \in 1..Len(mapped) : mapped[i] = Throw THEN Throw
        ELSE LET present == SelectSeq(mapped, IsOk)
             IN  Ok([i \in 1..Len(present) |-> TextOf(present[i])])

generateAttributes(prs) ==
    LET kept == FilterEntries(prs)
        mapped == [i \in 1..Len(kept) |-> generateEntry(kept[i][1], kept[i][2])]
    IN  IF \E i \in 1..Len(mapped) : mapped[i] = Throw THEN Throw
        ELSE LET present == SelectSeq(mapped, IsOk)
             IN  Ok([i \in 1..Len(present) |-> TextOf(present[i])])

\* `<${name}\n${entries}\n/>`
TagText(nm, attributes) ==
    <<"<">> \o nm \o <<"\n">> \o Join(attributes, <<"\n">>) \o <<"\n", "/", ">">>

formatJSX(nm, prs) ==
    LET attributes == formatAttributes(prs)
    IN  IF attributes = Throw THEN Throw ELSE Ok(TagText(nm, attributes[2]))

\* generateJSXCode of a playground named nm whose currentProps are prs
generateJSXCode(nm, prs) ==
    LET attributes == generateAttributes(prs)
    IN  IF attributes = Throw THEN Throw ELSE Ok(TagText(nm, attributes[2]))

(***************************************************************************)
(* Inputs                                                                  *)
(***************************************************************************)
SeqsUpTo(S, n) == UNION {[1..m -> S] : m \in 0..n}

\* A candidate list: an array of candidates, or undefined (optional property).
CandLists == {Arr(xs) : xs \in SeqsUpTo(CandVals, MaxLen)} \cup {Undefined}

\* Key sequences without repetition.
KeySeqs == {ks \in SeqsUpTo(Names, MaxProps) : \A i, j \in 1..Len(ks) : i # j => ks[i] # ks[j]}

Mappings ==
    UNION {{[i \in 1..Len(ks) |-> <<ks[i], ls[i]>>] : ls \in [1..Len(ks) -> CandLists]} : ks \in KeySeqs}

\* Values a property can hold.  An element is an object with a $$typeof
\* symbol; one created while a component renders also carries its owner, a
\* fiber, which is cyclic.
ElementObject ==
    Obj(<< <<TypeofKey, Symbol>>, <<<<"t", "y", "p", "e">>, Str(<<"p">>)>>,
           <<<<"k", "e", "y">>, Null>> >>)
OwnedElementObject ==
    Obj(<< <<TypeofKey, Symbol>>, <<<<"t", "y", "p", "e">>, Str(<<"p">>)>>,
           <<<<"_", "o", "w", "n", "e", "r">>, Cyclic>> >>)

PropVals ==
    {Bool(TRUE), Bool(FALSE),
     Str(<<>>), Str(<<"x">>), Str(<<"\"", "\n">>),
     Undefined, Null, Num(10),
     Arr(<<Num(-3), Undefined, Str(<<"\"">>)>>),
     Obj(<< <<<<"k">>, Bool(TRUE)>>, <<<<"f">>, Fn>> >>),
     Fn, ElementObject, OwnedElementObject, Cyclic}

AttrKeySeqs == {ks \in SeqsUpTo(Names, MaxAttrs) : \A i, j \in 1..Len(ks) : i # j => ks[i] # ks[j]}

PropSets ==
    UNION {{[i \in 1..Len(ks) |-> <<ks[i], vs[i]>>] : vs \in [1..Len(ks) -> PropVals]} : ks \in AttrKeySeqs}

CompNames == {<<"A">>, <<"B", "o", "x">>}

(***************************************************************************)
(* The enumeration applied to a drawn mapping                              *)
(***************************************************************************)
NotCalled == <<"notcalled", <<>>>>

SerializerIdle ==
    /\ name = <<>>
    /\ props = <<>>
    /\ fmtOut = NotCalled
    /\ genOut = NotCalled

\* no component mounted
NothingMounted ==
    /\ browser = <<>>
    /\ playground = <<>>
    /\ visited = <<>>
    /\ clipboard = Null

MachineIdle ==
    /\ pc = "idle"
    /\ stack = <<>>
    /\ result = <<>>
    /\ prev = <<>>
    /\ calls = 0

Init ==
    /\ options \in Mappings
    /\ combinations = <<>>
    /\ rendered = FALSE
    /\ MachineIdle
    /\ SerializerIdle
    /\ NothingMounted

\* const combinations = useMemo(() => getAllCombinations<Props>(propOptions), [propOptions])
Render ==
    /\ ~rendered
    /\ combinations' = getAllCombinations(options)
    /\ rendered' = TRUE
    /\ UNCHANGED <<options, pc, stack, result, prev, calls>>
    /\ UNCHANGED serVars
    /\ UNCHANGED uiVars

Next == Render

Spec == Init /\ [][Next]_vars

(***************************************************************************)
(* getAllCombinations executed call by call.  A frame is one active call   *)
(* of combine(index, current); an entered frame is inside its flatMap,     *)
(* with j candidates mapped and their results flattened into acc.  Spread  *)
(* builds a fresh object each time, so objects are held by value.          *)
(***************************************************************************)
Frame(index, current) ==
    [index |-> index, current |-> current, entered |-> FALSE,
     values |-> <<>>, j |-> 0, acc |-> <<>>]

Top == stack[Len(stack)]

\* return r from the innermost call: to the flatMap of the caller, or out of
\* getAllCombinations
Deliver(r) ==
    IF Len(stack) = 1
    THEN /\ stack' = <<>>
         /\ result' = r
         /\ pc' = "returned"
         /\ calls' = calls + 1
         /\ UNCHANGED prev
    ELSE LET caller == stack[Len(stack) - 1]
         IN  /\ stack' = SubSeq(stack, 1, Len(stack) - 2)
                    \o <<[caller EXCEPT !.acc = caller.acc \o r, !.j = caller.j + 1]>>
             /\ UNCHANGED <<result, pc, calls, prev>>

\* getAllCombinations(options): lines 14-15 and the call combine() of line 27
Call ==
    /\ pc \in {"idle", "returned"}
    /\ calls < MaxCalls
    /\ prev' = result
    /\ IF Len(ObjectKeys(options)) = 0
       THEN /\ result' = <<>>
            /\ pc' = "returned"
            /\ calls' = calls + 1
            /\ stack' = <<>>
       ELSE /\ stack' = <<Frame(0, <<>>)>>
            /\ pc' = "running"
            /\ UNCHANGED <<result, calls>>
    /\ UNCHANGED <<options, combinations, rendered>>
    /\ UNCHANGED serVars
    /\ UNCHANGED uiVars

\* if (index === keys.length) return [current]
BaseCase ==
    /\ pc = "running"
    /\ ~Top.entered
    /\ Top.index = Len(ObjectKeys(options))
    /\ Deliver(<<Top.current>>)
    /\ UNCHANGED <<options, combinations, rendered>>
    /\ UNCHANGED serVars
    /\ UNCHANGED uiVars

\* values.reverse().flatMap(...): the candidate list reordered in place
EnterReverseInPlace ==
    /\ pc = "running"
    /\ ~Top.entered
    /\ Top.index < Len(ObjectKeys(options))
    /\ LET i == Top.index + 1
           values == ValuesOf(options, ObjectKeys(options)[i])
           reversed == [n \in 1..Len(values[2]) |-> values[2][Len(values[2]) + 1 - n]]
       IN  /\ options' = [options EXCEPT ![i] = <<options[i][1], Arr(reversed)>>]
           /\ stack' = [stack EXCEPT ![Len(stack)] =
                            [Top EXCEPT !.entered = TRUE, !.values = reversed]]
           /\ UNCHANGED pc
    /\ UNCHANGED <<combinations, rendered, result, prev, calls>>
    /\ UNCHANGED serVars
    /\ UNCHANGED uiVars

\* const key = keys[index]; const values = options[key] ?? []; values.flatMap(
\* flatMap of a value that is no array raises a TypeError
Enter ==
    /\ pc = "running"
    /\ ~Top.entered
    /\ Top.index < Len(ObjectKeys(options))
    /\ LET values == ValuesOf(options, ObjectKeys(options)[Top.index + 1])
       IN  IF IsArray(values)
           THEN /\ stack' = [stack EXCEPT ![Len(stack)] =
                                [Top EXCEPT !.entered = TRUE, !.values = values[2]]]
                /\ UNCHANGED pc
           ELSE /\ pc' = "raised"
                /\ UNCHANGED stack
    /\ UNCHANGED <<options, combinations, rendered, result, prev, calls>>
    /\ UNCHANGED serVars
    /\ UNCHANGED uiVars

\* the flatMap callback on the next candidate:
\* combine(index + 1, { ...current, [key]: value })
Iterate ==
    /\ pc = "running"
    /\ Top.entered
    /\ Top.j < Len(Top.values)
    /\ stack' = Append(stack,
            Frame(Top.index + 1,
                  SpreadSet(Top.current, ObjectKeys(options)[Top.index + 1],
                            Top.values[Top.j + 1])))
    /\ UNCHANGED <<options, combinations, rendered, pc, result, prev, calls>>
    /\ UNCHANGED serVars
    /\ UNCHANGED uiVars

\* flatMap has mapped every candidate: return the flattened array
Finish ==
    /\ pc = "running"
    /\ Top.entered
    /\ Top.j = Len(Top.values)
    /\ Deliver(Top.acc)
    /\ UNCHANGED <<options, combinations, rendered>>
    /\ UNCHANGED serVars
    /\ UNCHANGED uiVars

StepCombine == BaseCase \/ Enter \/ Iterate \/ Finish

\* The execution only compares property names for equality, so the mappings
\* it is run on declare their properties in the order of AllNames; Spec
\* covers every order of declaration.
StepMappings == {o \in Mappings : \A i \in 1..Len(o) : o[i][1] = AllNames[i]}

InitCombine ==
    /\ options \in StepMappings
    /\ combinations = <<>>
    /\ rendered = FALSE
    /\ MachineIdle
    /\ SerializerIdle
    /\ NothingMounted

NextCombine == Call \/ StepCombine

\* A call, once made, runs to its end: JavaScript runs it synchronously.
SpecCombine == InitCombine /\ [][NextCombine]_vars /\ WF_vars(StepCombine)

\* The stepwise execution returns what the recursive definition denotes.
StepwiseAgrees == pc = "returned" => result = getAllCombinations(options)

(***************************************************************************)
(* The serializers applied to a drawn property set                         *)
(***************************************************************************)
InitSerializers ==
    /\ options = <<>>
    /\ combinations = <<>>
    /\ rendered = FALSE
    /\ MachineIdle
    /\ name \in CompNames
    /\ props \in PropSets
    /\ fmtOut = NotCalled
    /\ genOut = NotCalled
    /\ NothingMounted

\* const jsxCode = formatJSX(name, combinedProps)
FormatJSX ==
    /\ fmtOut = NotCalled
    /\ fmtOut' = formatJSX(name, props)
    /\ UNCHANGED <<name, props, genOut>>
    /\ UNCHANGED <<enumVars, machineVars>>
    /\ UNCHANGED uiVars

\* {generateJSXCode()} with currentProps = props
GenerateJSXCode ==
    /\ genOut = NotCalled
    /\ genOut' = generateJSXCode(name, props)
    /\ UNCHANGED <<name, props, fmtOut>>
    /\ UNCHANGED <<enumVars, machineVars>>
    /\ UNCHANGED uiVars

NextSerializers == FormatJSX \/ GenerateJSXCode

SpecSerializers == InitSerializers /\ [][NextSerializers]_vars

(***************************************************************************)
(* Vocabulary of the properties of the enumeration                         *)
(***************************************************************************)
KeySet(o) == Range(ObjectKeys(o))

\* The candidates of the i-th declared property: none when the list is absent.
Cands(opts, i) == IF IsArray(opts[i][2]) THEN opts[i][2][2] ELSE <<>>

NoDuplicates(s) == \A i, j \in 1..Len(s) : i # j => s[i] # s[j]

RECURSIVE ProductFrom(_, _)
\* n_i * ... * n_k
ProductFrom(opts, i) ==
    IF i > Len(opts) THEN 1 ELSE Len(Cands(opts, i)) * ProductFrom(opts, i + 1)

\* A combination read as an assignment of a value to each of its keys.
AsAssignment(c) == [k \in KeySet(c) |-> Get(c, k)]

\* The Cartesian product of the candidate lists, as a set of assignments.
CartesianProduct(opts) ==
    {f \in [KeySet(opts) -> CandVals] :
        \A i \in 1..Len(opts) : f[opts[i][1]] \in Range(Cands(opts, i))}

\* Position of the r-th combination (r counted from 0) in the i-th list when
\* the last declared property varies fastest.
Digit(opts, i, r) == (r \div ProductFrom(opts, i + 1)) % Len(Cands(opts, i))

\* First declared property at which two combinations differ.
FirstDiff(opts, A, B) ==
    CHOOSE i \in 1..Len(opts) :
        /\ Get(A, opts[i][1]) # Get(B, opts[i][1])
        /\ \A h \in 1..(i - 1) : Get(A, opts[h][1]) = Get(B, opts[h][1])

PosIn(list, v) == CHOOSE p \in 1..Len(list) : list[p] = v

AllListsNonEmpty(opts) == \A i \in 1..Len(opts) : Len(Cands(opts, i)) >= 1

(***************************************************************************)
(* C1..C5: the enumeration as a function of the mapping                    *)
(***************************************************************************)
\* C1: with k >= 1 properties whose candidate lists have lengths n1..nk, all
\* at least 1, the enumeration holds exactly n1 * ... * nk combinations.
C1_CountIsProduct ==
    (rendered /\ Len(options) >= 1 /\ AllListsNonEmpty(options))
        => Len(combinations) = ProductFrom(options, 1)

C1_Witness ==
    /\ rendered
    /\ Len(options) = 2
    /\ Len(Cands(options, 1)) = 2
    /\ Len(Cands(options, 2)) = 2
    /\ Len(combinations) = 4

\* C2: the enumeration is empty when the mapping has no property and whenever
\* some candidate list is empty or absent, wherever that property stands.
C2_EmptyWhenNoPropsOrEmptyList ==
    (rendered /\ (Len(options) = 0 \/ ~AllListsNonEmpty(options)))
        => combinations = <<>>

C2_Witness ==
    /\ rendered
    /\ Len(options) = 2
    /\ Len(Cands(options, 1)) = 2
    /\ options[2][2] = Undefined
    /\ combinations = <<>>

\* C3: every combination is a full assignment: its keys are exactly the keys
\* of the mapping, each once, and each value is a candidate of its key.
C3_FullAssignments ==
    rendered =>
        \A n \in 1..Len(combinations) :
            LET c == combinations[n]
            IN  /\ KeySet(c) = KeySet(options)
                /\ Len(c) = Len(options)
                /\ \A i \in 1..Len(options) :
                        Get(c, options[i][1]) \in Range(Cands(options, i))

C3_Witness ==
    /\ rendered
    /\ Len(options) = 2
    /\ Len(combinations) = 4
    /\ \E n \in 1..4 : combinations[n] = << <<options[1][1], Bool(TRUE)>>, <<options[2][1], Str(<<"x">>)>> >>

\* C4 as claimed: every element of the Cartesian product of the candidate
\* lists is in the output, and without duplicate candidates exactly once.
C4_Original ==
    rendered =>
        /\ \A f \in CartesianProduct(options) :
                \E n \in 1..Len(combinations) : AsAssignment(combinations[n]) = f
        /\ (\A i \in 1..Len(options) : NoDuplicates(Cands(options, i)))
                => NoDuplicates(combinations)

\* C4, amended: the same for a mapping with at least one property; for the
\* mapping without properties the output is empty, although the product of
\* no lists has one element, the empty assignment.
C4_ProductCovered ==
    rendered =>
        /\ Len(options) >= 1 =>
                /\ \A f \in CartesianProduct(options) :
                        \E n \in 1..Len(combinations) : AsAssignment(combinations[n]) = f
                /\ (\A i \in 1..Len(options) : NoDuplicates(Cands(options, i)))
                        => NoDuplicates(combinations)
        /\ Len(options) = 0 => combinations = <<>>

C4_Witness ==
    /\ rendered
    /\ Len(options) = 2
    /\ Cardinality(CartesianProduct(options)) = 4
    /\ NoDuplicates(combinations)
    /\ Len(combinations) = 4

\* C5: the output is in lexicographic order, properties compared in their
\* declaration order and values by their position in the candidate list, the
\* last declared property varying fastest: the r-th combination takes from
\* each list the candidate at the r-th mixed-radix digit, and, when no list
\* repeats a candidate, A precedes B iff at the first property where they
\* differ A's value comes earlier in that property's list.
C5_LexicographicOrder ==
    rendered =>
        /\ \A r \in 0..(Len(combinations) - 1) : \A i \in 1..Len(options) :
                Get(combinations[r + 1], options[i][1])
                    = Cands(options, i)[Digit(options, i, r) + 1]
        /\ (\A i \in 1..Len(options) : NoDuplicates(Cands(options, i))) =>
                \A m, n \in 1..Len(combinations) :
                    m # n =>
                        LET A == combinations[m]
                            B == combinations[n]
                            d == FirstDiff(options, A, B)
                            key == options[d][1]
                        IN  (m < n) <=> (PosIn(Cands(options, d), Get(A, key))
                                            < PosIn(Cands(options, d), Get(B, key)))

C5_Witness ==
    /\ rendered
    /\ Len(options) = 2
    /\ Cands(options, 1) = <<Bool(TRUE), Str(<<"x">>)>>
    /\ Cands(options, 2) = <<Str(<<"x">>), Bool(TRUE)>>
    /\ combinations[2] = << <<options[1][1], Bool(TRUE)>>, <<options[2][1], Bool(TRUE)>> >>
    /\ combinations[3] = << <<options[1][1], Str(<<"x">>)>>, <<options[2][1], Str(<<"x">>)>> >>

(***************************************************************************)
(* C6, C7: the enumeration as an execution                                 *)
(***************************************************************************)
RECURSIVE WorkOf(_, _)
\* Steps a call combine(index, _) takes on the mapping opts: one for the
\* base case, else entering and finishing the flatMap and, per candidate,
\* the callback and the call it makes.
WorkOf(opts, index) ==
    IF index = Len(opts) THEN 1
    ELSE 2 + Len(Cands(opts, index + 1)) * (1 + WorkOf(opts, index + 1))

\* Steps the n-th frame of the stack still has to take; a frame below the
\* top waits for the call of one of its candidates, counted with that call.
FrameWork(n) ==
    LET f == stack[n]
        waiting == IF n = Len(stack) THEN 0 ELSE 1
    IN  IF ~f.entered THEN WorkOf(options, f.index)
        ELSE 1 + (Len(f.values) - f.j - waiting) * (1 + WorkOf(options, f.index + 1))

RECURSIVE WorkFrom(_)
WorkFrom(n) == IF n > Len(stack) THEN 0 ELSE FrameWork(n) + WorkFrom(n + 1)

\* Steps left in the running call.
RemainingWork == IF pc = "running" THEN WorkFrom(1) ELSE 0

\* Every call that is made returns.
CallsReturn == [](pc = "running" => <>(pc = "returned"))

\* C6: getAllCombinations is total: on every mapping, also one with empty or
\* absent candidate lists, no step raises, a running call can always take a
\* step, the recursion is never deeper than one call per property plus one,
\* and every step of a call decreases the number of steps left, which is a
\* natural number: the recursion ends, and it ends by returning a sequence.
C6_Total ==
    /\ [](/\ pc # "raised"
          /\ Len(stack) <= Len(options) + 1
          /\ pc = "running" => (RemainingWork >= 1 /\ ENABLED StepCombine)
          /\ pc = "returned" => result \in Seq(Seq(Names \X CandVals)))
    /\ [][pc = "running" => /\ RemainingWork' = RemainingWork - 1
                            /\ pc' = "returned" <=> RemainingWork' = 0]_vars

C6_Witness ==
    /\ pc = "returned"
    /\ calls = 1
    /\ Len(options) = 2
    /\ Len(Cands(options, 1)) = 2
    /\ options[2][2] = Undefined
    /\ result = <<>>

\* C7: getAllCombinations is pure and deterministic: a second call on the
\* same mapping returns the same sequence as the first, and no step of a
\* call changes the mapping or its candidate lists.
C7_PureDeterministic ==
    /\ []((pc = "returned" /\ calls = 2) => result = prev)
    /\ [][options' = options]_vars

C7_Witness ==
    /\ pc = "returned"
    /\ calls = 2
    /\ Len(result) = 4
    /\ result = prev

(***************************************************************************)
(* Vocabulary of the properties of the serializers.  The attribute list of *)
(* a serializer is the array it joins into the tag text; a claim about a   *)
(* rendered property is a claim about the serializer's result, so it reads *)
(* the outcome of a call that returned.                                    *)
(***************************************************************************)
Returned(out) == out[1] = "ok"

BareAttr(k) == <<" ", " ">> \o k
QuotedAttr(k, str) == <<" ", " ">> \o k \o <<"=", "\"">> \o str \o <<"\"">>
BracedAttr(k, expr) == <<" ", " ">> \o k \o <<"=", "{">> \o expr \o <<"}">>

\* The name of an attribute text: what follows the indent, up to "=".
AttrName(text) ==
    LET body == SubSeq(text, 3, Len(text))
        stops == {n \in 1..Len(body) : body[n] = "="}
        end == IF stops = {} THEN Len(body) + 1
               ELSE CHOOSE n \in stops : \A h \in stops : n <= h
    IN  SubSeq(body, 1, end - 1)

NamesAttr(text, k) == AttrName(text) = k

IsNonEmptyString(v) == v[1] = "string" /\ v[2] # <<>>
IsElement(v) == v[1] = "object" /\ HasKey(v[2], TypeofKey)
IsFunction(v) == v[1] = "function"
\* numbers, null, arrays and objects that are no elements
IsPlainData(v) == v[1] \in {"number", "null", "array"} \/ (v[1] \in {"object", "cyclic"} /\ ~IsElement(v))

\* Each property with index in T has its expected text in the list, in the
\* order of the properties, and no other attribute carries its name.
RenderedOnceInOrder(list, T, Expected(_)) ==
    \E pos \in [T -> 1..Len(list)] :
        /\ \A i, j \in T : i < j => pos[i] < pos[j]
        /\ \A i \in T :
            /\ list[pos[i]] = Expected(i)
            /\ \A n \in 1..Len(list) : NamesAttr(list[n], props[i][1]) => n = pos[i]

FlagOrStringAttr(i) ==
    IF props[i][2] = Bool(TRUE) THEN BareAttr(props[i][1])
    ELSE QuotedAttr(props[i][1], props[i][2][2])

FlagsAndStrings ==
    {i \in 1..Len(props) : props[i][2] = Bool(TRUE) \/ IsNonEmptyString(props[i][2])}

(***************************************************************************)
(* C8..C10: what the serializers write for a property                      *)
(***************************************************************************)
\* C8: for every property set, formatJSX and generateJSXCode write each
\* property whose value is true as the bare name and each property whose
\* value is a non-empty string s as name="s", one attribute per property, in
\* the tag text <Name, the attributes one per line, />.
C8_FlagsAndStringsRendered ==
    /\ Returned(fmtOut) =>
        /\ fmtOut[2] = TagText(name, formatAttributes(props)[2])
        /\ RenderedOnceInOrder(formatAttributes(props)[2], FlagsAndStrings, FlagOrStringAttr)
    /\ Returned(genOut) =>
        /\ genOut[2] = TagText(name, generateAttributes(props)[2])
        /\ RenderedOnceInOrder(generateAttributes(props)[2], FlagsAndStrings, FlagOrStringAttr)

C8_Witness ==
    /\ Returned(fmtOut)
    /\ Returned(genOut)
    /\ name = <<"A">>
    /\ props = << <<<<"b">>, Bool(TRUE)>>, <<<<"a">>, Str(<<"x">>)>> >>
    /\ fmtOut[2] = <<"<", "A", "\n", " ", " ", "b", "\n",
                     " ", " ", "a", "=", "\"", "x", "\"", "\n", "/", ">">>
    /\ genOut = fmtOut

JSONAttr(i) == BracedAttr(props[i][1], JSONstringify(props[i][2])[2])

NeitherBooleanNorString ==
    {i \in 1..Len(props) : IsPlainData(props[i][2]) \/ IsElement(props[i][2]) \/ IsFunction(props[i][2])}

FormatExpressionAttr(i) ==
    IF IsElement(props[i][2]) THEN BracedAttr(props[i][1], ElementPlaceholder)
    ELSE IF IsFunction(props[i][2])
    THEN BracedAttr(props[i][1], <<"u", "n", "d", "e", "f", "i", "n", "e", "d">>)
    ELSE JSONAttr(i)

GenerateExpressionAttr(i) ==
    IF IsFunction(props[i][2])
    THEN BracedAttr(props[i][1], <<"u", "n", "d", "e", "f", "i", "n", "e", "d">>)
    ELSE JSONAttr(i)

NoAttrNamed(list, k) == \A n \in 1..Len(list) : ~NamesAttr(list[n], k)

\* C10 as claimed: a property whose value is the empty string, undefined or
\* null has no attribute of its name in the output.
C10_Original ==
    \A i \in 1..Len(props) :
        props[i][2] \in {Str(<<>>), Undefined, Null} =>
            /\ Returned(fmtOut) => NoAttrNamed(formatAttributes(props)[2], props[i][1])
            /\ Returned(genOut) => NoAttrNamed(generateAttributes(props)[2], props[i][1])

\* C10, amended: a property whose value is the empty string or undefined has
\* no attribute of its name in the output; a property whose value is null is
\* not omitted, it is written name={null}.
C10_EmptyAndUndefinedOmitted ==
    \A i \in 1..Len(props) :
        /\ props[i][2] \in {Str(<<>>), Undefined} =>
            /\ Returned(fmtOut) => NoAttrNamed(formatAttributes(props)[2], props[i][1])
            /\ Returned(genOut) => NoAttrNamed(generateAttributes(props)[2], props[i][1])
        /\ props[i][2] = Null =>
            /\ Returned(fmtOut) =>
                \E n \in 1..Len(formatAttributes(props)[2]) :
                    formatAttributes(props)[2][n] = BracedAttr(props[i][1], <<"n", "u", "l", "l">>)
            /\ Returned(genOut) =>
                \E n \in 1..Len(generateAttributes(props)[2]) :
                    generateAttributes(props)[2][n] = BracedAttr(props[i][1], <<"n", "u", "l", "l">>)

C10_Witness ==
    /\ Returned(fmtOut)
    /\ Returned(genOut)
    /\ name = <<"A">>
    /\ props = << <<<<"a">>, Undefined>>, <<<<"b">>, Str(<<>>)>> >>
    /\ fmtOut[2] = <<"<", "A", "\n", "\n", "/", ">">>
    /\ genOut[2] = <<"<", "A", "\n", "\n", "/", ">">>

(***************************************************************************)
(* C11..C13: omission, reading the output back, values without an encoding *)
(***************************************************************************)
\* The property set without its i-th property.
Without(prs, i) == SubSeq(prs, 1, i - 1) \o SubSeq(prs, i + 1, Len(prs))

IsBlank(text) == \A n \in 1..Len(text) : text[n] \in {" ", "\n"}

FalseOrEmpty == {i \in 1..Len(props) : props[i][2] \in {Bool(FALSE), Str(<<>>)}}

\* C11: a property whose value is false or the empty string has no attribute
\* of its name in the output of either serializer, and leaves no blank line
\* behind: no entry of the attribute list is blank, and the output is, character
\* for character, the output for the property set without that property.
C11_FalseAndEmptyLeaveNoTrace ==
    /\ Returned(fmtOut) =>
        /\ \A n \in 1..Len(formatAttributes(props)[2]) : ~IsBlank(formatAttributes(props)[2][n])
        /\ \A i \in FalseOrEmpty :
            /\ NoAttrNamed(formatAttributes(props)[2], props[i][1])
            /\ fmtOut = formatJSX(name, Without(props, i))
    /\ Returned(genOut) =>
        /\ \A n \in 1..Len(generateAttributes(props)[2]) : ~IsBlank(generateAttributes(props)[2][n])
        /\ \A i \in FalseOrEmpty :
            /\ NoAttrNamed(generateAttributes(props)[2], props[i][1])
            /\ genOut = generateJSXCode(name, Without(props, i))

C11_Witness ==
    /\ Returned(fmtOut)
    /\ Returned(genOut)
    /\ name = <<"A">>
    /\ props = << <<<<"a">>, Bool(FALSE)>>, <<<<"b">>, Bool(TRUE)>> >>
    /\ fmtOut[2] = <<"<", "A", "\n", " ", " ", "b", "\n", "/", ">">>
    /\ genOut = fmtOut

(***************************************************************************)
(* Reading an attribute list back as a property set: a bare name is true,  *)
(* name="s" is the string s, name={J} is the value the expression J        *)
(* denotes.  A text that does not follow these three forms is unreadable.  *)
(***************************************************************************)
Unreadable == <<"unreadable", <<>>>>

IsSpace(c) == c \in {" ", "\n"}
NotSpace(c) == ~IsSpace(c)
Squeeze(text) == SelectSeq(text, NotSpace)

\* The first position from n on that holds a character of S, Len(text) + 1
\* if there is none.
FirstOf(text, n, S) ==
    LET hits == {h \in n..Len(text) : text[h] \in S}
    IN  IF hits = {} THEN Len(text) + 1 ELSE CHOOSE h \in hits : \A g \in hits : h <= g

RECURSIVE BraceEnd(_, _, _, _)
\* The position of the brace that closes the expression entered at depth 1,
\* braces inside string literals not counted; 0 if it is never closed.
BraceEnd(text, n, depth, inString) ==
    IF n > Len(text) THEN 0
    ELSE IF inString
    THEN (IF text[n] = "\\" THEN BraceEnd(text, n + 2, depth, TRUE)
          ELSE BraceEnd(text, n + 1, depth, text[n] # "\""))
    ELSE IF text[n] = "\"" THEN BraceEnd(text, n + 1, depth, TRUE)
    ELSE IF text[n] = "{" THEN BraceEnd(text, n + 1, depth + 1, FALSE)
    ELSE IF text[n] = "}"
    THEN (IF depth = 1 THEN n ELSE BraceEnd(text, n + 1, depth - 1, FALSE))
    ELSE BraceEnd(text, n + 1, depth, FALSE)

RECURSIVE Normal(_)
\* The value a JSON text of v denotes: JSON.parse(JSON.stringify(v)).
Normal(v) ==
    CASE v[1] = "array" ->
            Arr([i \in 1..Len(v[2]) |->
                    IF Returned(JSONstringify(v[2][i])) THEN Normal(v[2][i]) ELSE Null])
      [] v[1] = "object" ->
            LET Encoded(e) == Returned(JSONstringify(e[2]))
                kept == SelectSeq(v[2], Encoded)
            IN  Obj([i \in 1..Len(kept) |-> <<kept[i][1], Normal(kept[i][2])>>])
      [] OTHER -> v

\* Values an expression between braces can denote.
ExpressionValues ==
    {Normal(v) : v \in {w \in PropVals : Returned(JSONstringify(w))}}
        \cup {Undefined, ElementObject}

ExpressionText(v) ==
    IF v = Undefined THEN <<"u", "n", "d", "e", "f", "i", "n", "e", "d">>
    ELSE IF IsElement(v) THEN ElementPlaceholder
    ELSE JSONstringify(v)[2]

Denotes(expr) == {v \in ExpressionValues : ExpressionText(v) = expr}

NameChars(nm) == nm # <<>> /\ \A n \in 1..Len(nm) : nm[n] \notin {"\"", "{", "}", "<", ">", "/"}

RECURSIVE ReadFrom(_, _, _)
ReadFrom(text, n, acc) ==
    IF n > Len(text) THEN Ok(acc)
    ELSE IF IsSpace(text[n]) THEN ReadFrom(text, n + 1, acc)
    ELSE LET e == FirstOf(text, n, {"=", " ", "\n"})
             nm == SubSeq(text, n, e - 1)
         IN  IF ~NameChars(nm) THEN Unreadable
             ELSE IF e > Len(text) \/ text[e] # "="
             THEN ReadFrom(text, e, SpreadSet(acc, nm, Bool(TRUE)))
             ELSE IF e + 1 <= Len(text) /\ text[e + 1] = "\""
             THEN LET q == FirstOf(text, e + 2, {"\""})
                  IN  IF q > Len(text) THEN Unreadable
                      ELSE ReadFrom(text, q + 1,
                                    SpreadSet(acc, nm, Str(SubSeq(text, e + 2, q - 1))))
             ELSE IF e + 1 <= Len(text) /\ text[e + 1] = "{"
             THEN LET b == BraceEnd(text, e + 2, 1, FALSE)
                  IN  IF b = 0 \/ Denotes(SubSeq(text, e + 2, b - 1)) = {} THEN Unreadable
                      ELSE ReadFrom(text, b + 1,
                                    SpreadSet(acc, nm,
                                        CHOOSE v \in Denotes(SubSeq(text, e + 2, b - 1)) : TRUE))
             ELSE Unreadable

ReadAttributes(list) == ReadFrom(Join(list, <<"\n">>), 1, <<>>)

SameModuloSpace(listA, listB) ==
    /\ Len(listA) = Len(listB)
    /\ \A n \in 1..Len(listA) : Squeeze(listA[n]) = Squeeze(listB[n])

\* C12 as claimed: for every property set, string values with quote or
\* newline characters included, the attribute list a serializer emits can be
\* read back as a property set, and the serializer writes that property set
\* as the same attribute list modulo whitespace.
C12_Original ==
    /\ Returned(fmtOut) =>
        LET list == formatAttributes(props)[2]
            back == ReadAttributes(list)
        IN  /\ IsOk(back)
            /\ IsOk(formatAttributes(back[2]))
            /\ SameModuloSpace(formatAttributes(back[2])[2], list)
    /\ Returned(genOut) =>
        LET list == generateAttributes(props)[2]
            back == ReadAttributes(list)
        IN  /\ IsOk(back)
            /\ IsOk(generateAttributes(back[2]))
            /\ SameModuloSpace(generateAttributes(back[2])[2], list)

\* Values JSON.stringify has no encoding for.
Unserializable == {i \in 1..Len(props) :
                      IsElement(props[i][2]) \/ IsFunction(props[i][2]) \/ props[i][2] = Cyclic}

\* Tokens written in the place of a value: the element placeholder, and the
\* word undefined.
PlaceholderTokens == {ElementPlaceholder, <<"u", "n", "d", "e", "f", "i", "n", "e", "d">>}

HasPlaceholder(list, k) ==
    \E n \in 1..Len(list) : \E token \in PlaceholderTokens : list[n] = BracedAttr(k, token)

\* C13 as claimed: for every property set, a call of formatJSX or of
\* generateJSXCode returns a string and never raises, and in that string each
\* element object, function or cyclic object is written name={placeholder}.
C13_Original ==
    /\ fmtOut # NotCalled =>
        /\ Returned(fmtOut)
        /\ \A i \in Unserializable : HasPlaceholder(formatAttributes(props)[2], props[i][1])
    /\ genOut # NotCalled =>
        /\ Returned(genOut)
        /\ \A i \in Unserializable : HasPlaceholder(generateAttributes(props)[2], props[i][1])

(***************************************************************************)
(* ComponentCombinationBrowser.  A mounted instance is a record of the     *)
(* props of its last render (defaults applied), the memoized combinations  *)
(* and its two state hooks, page and selectedCode.  itemsPerPage is a      *)
(* positive integer.                                                       *)
(***************************************************************************)
MaxPerPage == 3     \* largest itemsPerPage handed to a browser explicitly

DefaultName == <<"C", "o", "m", "p", "o", "n", "e", "n", "t">>
DefaultItemsPerPage == 10

\* a destructuring default: used when the prop is undefined
WithDefault(v, d) == IF v = Undefined THEN d ELSE v

RECURSIVE SpreadFrom(_, _, _)
SpreadFrom(acc, b, i) ==
    IF i > Len(b) THEN acc ELSE SpreadFrom(SpreadSet(acc, b[i][1], b[i][2]), b, i + 1)

\* { ...b, ...a }: the spreads in the other order
SpreadFirstWins(a, b) == SpreadFrom(b, a, 1)

\* { ...a, ...b }
Spread(a, b) == SpreadFrom(a, b, 1)

\* Math.max, Math.min
Max(a, b) == IF a >= b THEN a ELSE b
Min(a, b) == IF a <= b THEN a ELSE b

\* Math.ceil(a / b) for a >= 0, b >= 1
Ceil(a, b) == (a + b - 1) \div b

\* s.slice(from): the end forgotten
SliceWithoutEnd(s, from, to) == SubSeq(s, Min(from, Len(s)) + 1, Len(s))

\* s.slice(from, to) for 0 <= from: both ends are cut at the length of s
Slice(s, from, to) == SubSeq(s, Min(from, Len(s)) + 1, Min(to, Len(s)))

\* The hooks of a first render with props p.
Mounted(p) ==
    [name |-> WithDefault(p.name, Str(DefaultName))[2],
     staticProps |-> WithDefault(p.staticProps, Obj(<<>>))[2],
     propOptions |-> p.propOptions,
     itemsPerPage |-> WithDefault(p.itemsPerPage, Num(DefaultItemsPerPage))[2],
     combinations |-> getAllCombinations(p.propOptions),
     page |-> 0,
     selectedCode |-> Null]

\* const start = page * itemsPerPage
start(b) == b.page * b.itemsPerPage

\* combinations.slice(start, start + itemsPerPage)
visibleCombinations(b) == Slice(b.combinations, start(b), start(b) + b.itemsPerPage)

\* Math.ceil(combinations.length / itemsPerPage)
totalPages(b) == Ceil(Len(b.combinations), b.itemsPerPage)

\* { ...staticProps, ...combo }
combinedProps(b, combo) == Spread(b.staticProps, combo)

jsxCode(b, combo) == formatJSX(b.name, combinedProps(b, combo))

\* <Component {...combinedProps} />: the props the previewed component receives
componentProps(b, combo) == Spread(<<>>, combinedProps(b, combo))

\* Next disabled one page early
NextDisabledEarly(b) == b.page + 2 >= totalPages(b)

\* disabled={page === 0}, disabled={page + 1 >= totalPages}
PreviousDisabled(b) == b.page = 0
NextDisabled(b) == b.page + 1 >= totalPages(b)

\* the updater of Previous without the lower clamp
previousPageUnclamped(pg) == pg - 1

\* (p) => Math.max(0, p - 1)
previousPage(pg) == Max(0, pg - 1)

\* the updater of Next without the upper clamp
nextPageUnclamped(pg, total) == pg + 1

\* (p) => Math.min(totalPages - 1, p + 1)
nextPage(pg, total) == Min(total - 1, pg + 1)

\* {selectedCode && (...)}: the preview panel is rendered
PreviewShown(b) == Truthy(b.selectedCode)

\* The record of pages shown, kept for instance 1 while a run is recorded.
Recorded(i, pg) == IF i = 1 /\ visited # <<>> THEN Append(visited, pg) ELSE visited

\* click on Previous: a disabled button delivers no click
ClickPrevious(i) ==
    /\ i \in DOMAIN browser
    /\ ~PreviousDisabled(browser[i])
    /\ browser' = [browser EXCEPT ![i].page = previousPage(browser[i].page)]
    /\ visited' = IF i = 1 THEN <<>> ELSE visited
    /\ UNCHANGED playground
    /\ UNCHANGED <<enumVars, machineVars, serVars, clipboard>>

\* click on Next with the page kept in a variable of the module, shared by
\* every instance
ClickNextSharedPage(i) ==
    /\ i \in DOMAIN browser
    /\ ~NextDisabled(browser[i])
    /\ browser' = [j \in DOMAIN browser |->
                      [browser[j] EXCEPT
                          !.page = nextPage(browser[i].page, totalPages(browser[i]))]]
    /\ visited' = Recorded(i, nextPage(browser[i].page, totalPages(browser[i])))
    /\ UNCHANGED playground
    /\ UNCHANGED <<enumVars, machineVars, serVars, clipboard>>

\* click on Next
ClickNext(i) ==
    /\ i \in DOMAIN browser
    /\ ~NextDisabled(browser[i])
    /\ browser' = [browser EXCEPT
                      ![i].page = nextPage(browser[i].page, totalPages(browser[i]))]
    /\ visited' = Recorded(i, nextPage(browser[i].page, totalPages(browser[i])))
    /\ UNCHANGED playground
    /\ UNCHANGED <<enumVars, machineVars, serVars, clipboard>>

\* View JSX that also goes back to the first page
ClickViewJSXResetsPage(i) ==
    /\ i \in DOMAIN browser
    /\ \E n \in 1..Len(visibleCombinations(browser[i])) :
        LET code == jsxCode(browser[i], visibleCombinations(browser[i])[n])
        IN  /\ IsOk(code)
            /\ browser' = [browser EXCEPT ![i].selectedCode = Str(code[2]), ![i].page = 0]
    /\ UNCHANGED <<playground, visited>>
    /\ UNCHANGED <<enumVars, machineVars, serVars, clipboard>>

\* click on View JSX of a card of the visible page: setSelectedCode(jsxCode)
ClickViewJSX(i) ==
    /\ i \in DOMAIN browser
    /\ \E n \in 1..Len(visibleCombinations(browser[i])) :
        LET code == jsxCode(browser[i], visibleCombinations(browser[i])[n])
        IN  /\ IsOk(code)
            /\ browser' = [browser EXCEPT ![i].selectedCode = Str(code[2])]
    /\ UNCHANGED <<playground, visited>>
    /\ UNCHANGED <<enumVars, machineVars, serVars, clipboard>>

\* click on Close Preview: setSelectedCode(null)
ClickClosePreview(i) ==
    /\ i \in DOMAIN browser
    /\ PreviewShown(browser[i])
    /\ browser' = [browser EXCEPT ![i].selectedCode = Null]
    /\ UNCHANGED <<playground, visited>>
    /\ UNCHANGED <<enumVars, machineVars, serVars, clipboard>>

\* Props a browser is rendered with.  Candidate lists hold no candidate
\* twice; an absent prop is undefined.
BrowserOptions ==
    {o \in StepMappings :
        \A i \in 1..Len(o) : IsArray(o[i][2]) =>
            \A m, n \in 1..Len(o[i][2][2]) : m # n => o[i][2][2][m] # o[i][2][2][n]}

StaticSets == {Undefined, Obj(<< <<<<"a">>, Str(<<"s">>)>>, <<<<"c">>, Fn>> >>)}

BrowserNames == {Undefined, Str(<<"A">>)}

PerPages == {Undefined} \cup {Num(n) : n \in 1..MaxPerPage}

BrowserProps ==
    [name : BrowserNames, staticProps : StaticSets,
     propOptions : BrowserOptions, itemsPerPage : PerPages]

NoCallMade ==
    /\ options = <<>>
    /\ combinations = <<>>
    /\ rendered = FALSE
    /\ MachineIdle
    /\ SerializerIdle

\* One browser, rendered once with fixed props.
InitBrowser ==
    /\ NoCallMade
    /\ \E p \in BrowserProps : browser = <<Mounted(p)>>
    /\ playground = <<>>
    /\ visited = <<>>
    /\ clipboard = Null

\* a click on the button of any mounted browser
PreviousClicked == \E i \in DOMAIN browser : ClickPrevious(i)
NextClicked == \E i \in DOMAIN browser : ClickNext(i)
ViewJSXClicked == \E i \in DOMAIN browser : ClickViewJSX(i)
ClosePreviewClicked == \E i \in DOMAIN browser : ClickClosePreview(i)

NextBrowser == PreviousClicked \/ NextClicked \/ ViewJSXClicked \/ ClosePreviewClicked

SpecBrowser == InitBrowser /\ [][NextBrowser]_vars

(***************************************************************************)
(* ComponentPlayground.  A config is a name and the controlled props in    *)
(* the order the config object declares them, each with its meta record    *)
(* (an absent default or options field is undefined).  A mounted instance  *)
(* holds its config, the currentProps hook and whether handleChange has    *)
(* run since the first render.                                             *)
(***************************************************************************)
Meta(type, opts, default) == [type |-> type, options |-> opts, default |-> default]

\* the initial value with the default of the config ignored
InitialValueNoDefault(m) ==
    IF m.type = "boolean" THEN Bool(FALSE) ELSE Str(<<>>)

\* m.default ?? (m.type === "boolean" ? false : "")
InitialValue(m) ==
    IF m.default = Undefined \/ m.default = Null
    THEN (IF m.type = "boolean" THEN Bool(FALSE) ELSE Str(<<>>))
    ELSE m.default

RECURSIVE ReduceInitial(_, _, _)
ReduceInitial(acc, propConfig, i) ==
    IF i > Len(propConfig) THEN acc
    ELSE ReduceInitial(SpreadSet(acc, propConfig[i][1], InitialValue(propConfig[i][2])),
                       propConfig, i + 1)

\* Object.entries(propConfig).reduce((acc, [key, meta]) => { acc[key] = ...; return acc }, {})
initialState(config) == ReduceInitial(<<>>, config.props, 1)

\* (prev) => ({ ...prev, [key]: value })
handleChange(before, key, value) == SpreadSet(before, key, value)

MountedPlayground(config) ==
    [config |-> config, currentProps |-> initialState(config), changed |-> FALSE]

\* Values the control rendered for a prop can hand to handleChange: an option
\* of the select, the state of the checkbox, Number(text) of the number
\* input, the text of the text input.
TypedNumbers == {Num(0), Num(10)}
TypedTexts == {Str(<<>>), Str(<<"x">>)}

ControlValues(m) ==
    IF m.type = "enum" /\ m.options # Undefined /\ m.options # Arr(<<>>)
    THEN Range(m.options[2])
    ELSE IF m.type = "enum" /\ m.options # Undefined THEN {}
    ELSE IF m.type = "boolean" THEN {Bool(TRUE), Bool(FALSE)}
    ELSE IF m.type = "number" THEN TypedNumbers
    ELSE TypedTexts

\* onChange of the control of one prop
Change(i) ==
    /\ i \in DOMAIN playground
    /\ \E n \in 1..Len(playground[i].config.props) :
        \E value \in ControlValues(playground[i].config.props[n][2]) :
            playground' = [playground EXCEPT
                ![i].currentProps = handleChange(playground[i].currentProps,
                                                 playground[i].config.props[n][1], value),
                ![i].changed = TRUE]
    /\ UNCHANGED <<browser, visited>>
    /\ UNCHANGED <<enumVars, machineVars, serVars, clipboard>>

\* AccordionPlaygroundPage
AccordionConfig ==
    [name |-> <<"A", "c", "c", "o", "r", "d", "i", "o", "n">>,
     props |-> <<
        <<<<"v", "a", "r", "i", "a", "n", "t">>, Meta("enum", Arr(<<Str(<<"d", "e", "f", "a", "u", "l", "t">>), Str(<<"b", "o", "r", "d", "e", "r", "e", "d">>), Str(<<"b", "o", "t", "t", "o", "m", "-", "b", "o", "r", "d", "e", "r">>)>>),
                          Str(<<"d", "e", "f", "a", "u", "l", "t">>))>>,
        <<<<"t", "r", "i", "g", "g", "e", "r", "P", "o", "s", "i", "t", "i", "o", "n">>, Meta("enum", Arr(<<Str(<<"l", "e", "f", "t">>), Str(<<"r", "i", "g", "h", "t">>)>>), Str(<<"r", "i", "g", "h", "t">>))>>,
        <<<<"t", "i", "t", "l", "e">>, Meta("string", Undefined, Str(<<"A", "c", "c", "o", "r", "d", "i", "o", "n", " ", "T", "i", "t", "l", "e">>))>>,
        <<<<"c", "o", "n", "t", "e", "n", "t">>, Meta("string", Undefined, Str(<<"A", "c", "c", "o", "r", "d", "i", "o", "n", " ", "C", "o", "n", "t", "e", "n", "t">>))>>,
        <<<<"d", "e", "f", "a", "u", "l", "t", "O", "p", "e", "n">>, Meta("boolean", Undefined, Bool(FALSE))>>,
        <<<<"d", "i", "s", "a", "b", "l", "e", "d">>, Meta("boolean", Undefined, Bool(FALSE))>>,
        <<<<"i", "t", "e", "m", "V", "a", "l", "u", "e">>, Meta("string", Undefined, Str(<<"i", "t", "e", "m", "-", "1">>))>> >>]

\* A config with one prop of each type and no default.
PlainConfig ==
    [name |-> <<"A">>,
     props |-> <<
        <<<<"a">>, Meta("enum", Arr(<<Str(<<"x">>), Str(<<"y">>)>>), Undefined)>>,
        <<<<"b">>, Meta("boolean", Undefined, Undefined)>>,
        <<<<"c">>, Meta("number", Undefined, Undefined)>>,
        <<<<"d">>, Meta("string", Undefined, Undefined)>> >>]

Configs == {AccordionConfig, PlainConfig}

\* One playground, rendered with a fixed config.
InitPlayground ==
    /\ NoCallMade
    /\ clipboard = Null
    /\ browser = <<>>
    /\ \E c \in Configs : playground = <<MountedPlayground(c)>>
    /\ visited = <<>>

\* a change of a control of any mounted playground
ControlChanged == \E i \in DOMAIN playground : Change(i)

NextPlayground == ControlChanged

SpecPlayground == InitPlayground /\ [][NextPlayground]_vars

(***************************************************************************)
(* The Props table of the Accordion README: for each documented prop the   *)
(* literal values of its type, where the type is a union of literals, and  *)
(* its documented default.                                                 *)
(***************************************************************************)
Documented(values, default) == [values |-> values, default |-> default]

AccordionReadme == <<
    <<<<"v", "a", "r", "i", "a", "n", "t">>, Documented({Str(<<"d", "e", "f", "a", "u", "l", "t">>), Str(<<"b", "o", "r", "d", "e", "r", "e", "d">>), Str(<<"b", "o", "t", "t", "o", "m", "-", "b", "o", "r", "d", "e", "r">>)}, Str(<<"d", "e", "f", "a", "u", "l", "t">>))>>,
    <<<<"t", "r", "i", "g", "g", "e", "r", "P", "o", "s", "i", "t", "i", "o", "n">>, Documented({Str(<<"l", "e", "f", "t">>), Str(<<"r", "i", "g", "h", "t">>)}, Str(<<"r", "i", "g", "h", "t">>))>>,
    <<<<"t", "i", "t", "l", "e">>, Documented({}, Str(<<"A", "c", "c", "o", "r", "d", "i", "o", "n", " ", "T", "i", "t", "l", "e">>))>>,
    <<<<"t", "i", "t", "l", "e", "I", "c", "o", "n">>, Documented({}, Undefined)>>,
    <<<<"c", "o", "n", "t", "e", "n", "t">>, Documented({}, Str(<<"A", "c", "c", "o", "r", "d", "i", "o", "n", " ", "C", "o", "n", "t", "e", "n", "t">>))>>,
    <<<<"o", "p", "e", "n">>, Documented({}, Undefined)>>,
    <<<<"d", "e", "f", "a", "u", "l", "t", "O", "p", "e", "n">>, Documented({}, Bool(FALSE))>>,
    <<<<"o", "n", "O", "p", "e", "n", "C", "h", "a", "n", "g", "e">>, Documented({}, Undefined)>>,
    <<<<"t", "i", "t", "l", "e", "C", "l", "a", "s", "s", "N", "a", "m", "e">>, Documented({}, Undefined)>>,
    <<<<"c", "o", "n", "t", "e", "n", "t", "C", "l", "a", "s", "s", "N", "a", "m", "e">>, Documented({}, Undefined)>>,
    <<<<"c", "l", "a", "s", "s", "N", "a", "m", "e">>, Documented({}, Undefined)>>,
    <<<<"i", "t", "e", "m", "V", "a", "l", "u", "e">>, Documented({}, Str(<<"i", "t", "e", "m", "-", "1">>))>>,
    <<<<"i", "d">>, Documented({}, Undefined)>>,
    <<<<"d", "i", "s", "a", "b", "l", "e", "d">>, Documented({}, Bool(FALSE))>>,
    <<<<"t", "r", "i", "g", "g", "e", "r", "P", "r", "o", "p", "s">>, Documented({}, Obj(<<>>))>> >>

(***************************************************************************)
(* Two instances of one component mounted side by side                     *)
(***************************************************************************)
PairProps ==
    {[name |-> Undefined, staticProps |-> Undefined, propOptions |-> o,
      itemsPerPage |-> Num(1)] :
        o \in {<< <<<<"a">>, Arr(<<Str(<<"x">>), Bool(TRUE)>>)>> >>,
               << <<<<"a">>, Arr(<<Str(<<"x">>)>>)>>,
                  <<<<"b">>, Arr(<<Bool(TRUE), Str(<<"x">>)>>)>> >>}}

InitInstances ==
    /\ NoCallMade
    /\ clipboard = Null
    /\ visited = <<>>
    /\ \/ /\ \E p, q \in PairProps : browser = <<Mounted(p), Mounted(q)>>
          /\ playground = <<>>
       \/ /\ browser = <<>>
          /\ playground = <<MountedPlayground(PlainConfig), MountedPlayground(PlainConfig)>>

NextInstances ==
    \/ PreviousClicked \/ NextClicked \/ ViewJSXClicked \/ ClosePreviewClicked
    \/ ControlChanged

SpecInstances == InitInstances /\ [][NextInstances]_vars

(***************************************************************************)
(* C14: instances share no state                                           *)
(***************************************************************************)
\* What an instance derives from its props is a function of its own props.
DerivedFromOwnProps ==
    /\ \A i \in DOMAIN browser :
        /\ browser[i].combinations = getAllCombinations(browser[i].propOptions)
        /\ browser[i].selectedCode # Null =>
            \E n \in 1..Len(browser[i].combinations) :
                browser[i].selectedCode =
                    Str(formatJSX(browser[i].name,
                                  Spread(browser[i].staticProps, browser[i].combinations[n]))[2])
    /\ \A i \in DOMAIN playground :
        ObjectKeys(playground[i].currentProps) = ObjectKeys(playground[i].config.props)

\* C14: with two browsers, or two playgrounds, mounted together, a click on
\* Previous, Next, View JSX or Close Preview of one browser leaves the page
\* and the selected code of the other as they were, a change of a control of
\* one playground leaves the current props of the other as they were, and
\* what each instance computes with the enumerator and the serializer is
\* determined by its own props alone.
C14_InstancesShareNoState ==
    /\ []DerivedFromOwnProps
    /\ [][/\ \A i \in DOMAIN browser :
                (ClickPrevious(i) \/ ClickNext(i) \/ ClickViewJSX(i) \/ ClickClosePreview(i))
                    => /\ \A j \in DOMAIN browser \ {i} : browser'[j] = browser[j]
                       /\ playground' = playground
          /\ \A i \in DOMAIN playground :
                Change(i)
                    => /\ \A j \in DOMAIN playground \ {i} : playground'[j] = playground[j]
                       /\ browser' = browser
          /\ \A i, j \in DOMAIN browser :
                (i # j /\ browser'[i] # browser[i]) => browser'[j] = browser[j]
          /\ \A i, j \in DOMAIN playground :
                (i # j /\ playground'[i] # playground[i]) => playground'[j] = playground[j]
         ]_vars

\* Two browsers with the same props: the first has gone to its second page
\* and shows a preview, the second is as it was mounted.
C14_Witness ==
    /\ Len(browser) = 2
    /\ browser[1].propOptions = browser[2].propOptions
    /\ browser[1].page = 1
    /\ browser[2].page = 0
    /\ browser[1].selectedCode # Null
    /\ browser[2].selectedCode = Null

(***************************************************************************)
(* C15: the Accordion playground against the Accordion README              *)
(***************************************************************************)
ControlledByAccordionPlayground ==
    <<<<"v", "a", "r", "i", "a", "n", "t">>, <<"t", "r", "i", "g", "g", "e", "r", "P", "o", "s", "i", "t", "i", "o", "n">>, <<"t", "i", "t", "l", "e">>, <<"c", "o", "n", "t", "e", "n", "t">>,
      <<"d", "e", "f", "a", "u", "l", "t", "O", "p", "e", "n">>, <<"d", "i", "s", "a", "b", "l", "e", "d">>, <<"i", "t", "e", "m", "V", "a", "l", "u", "e">>>>

\* C15: the Accordion playground controls variant, triggerPosition, title,
\* content, defaultOpen, disabled and itemValue; before any control is
\* changed its current props are the initial state, in which each of these
\* props has the default the README documents for it; and every option its
\* selects offer for variant and triggerPosition is a value the README
\* documents for that prop.
C15_AccordionDefaultsDocumented ==
    \A i \in DOMAIN playground :
        playground[i].config = AccordionConfig =>
            LET config == playground[i].config
                initial == initialState(config)
            IN  /\ ObjectKeys(initial) = ControlledByAccordionPlayground
                /\ ~playground[i].changed => playground[i].currentProps = initial
                /\ \A n \in 1..Len(initial) :
                    /\ HasKey(AccordionReadme, initial[n][1])
                    /\ initial[n][2] = Get(AccordionReadme, initial[n][1]).default
                /\ \A n \in 1..Len(config.props) :
                    config.props[n][2].type = "enum" =>
                        /\ HasKey(AccordionReadme, config.props[n][1])
                        /\ Range(config.props[n][2].options[2])
                              \subseteq Get(AccordionReadme, config.props[n][1]).values

C15_Witness ==
    /\ Len(playground) = 1
    /\ playground[1].config = AccordionConfig
    /\ ~playground[1].changed
    /\ Get(playground[1].currentProps, <<"v", "a", "r", "i", "a", "n", "t">>) = Str(<<"d", "e", "f", "a", "u", "l", "t">>)
    /\ Get(playground[1].currentProps, <<"t", "r", "i", "g", "g", "e", "r", "P", "o", "s", "i", "t", "i", "o", "n">>) = Str(<<"r", "i", "g", "h", "t">>)
    /\ Get(playground[1].currentProps, <<"d", "e", "f", "a", "u", "l", "t", "O", "p", "e", "n">>) = Bool(FALSE)
    /\ Get(playground[1].currentProps, <<"i", "t", "e", "m", "V", "a", "l", "u", "e">>) = Str(<<"i", "t", "e", "m", "-", "1">>)

(***************************************************************************)
(* C16, C17: pagination of a browser rendered with fixed props             *)
(***************************************************************************)
\* The instance as it renders on page pg.
OnPage(b, pg) == [b EXCEPT !.page = pg]

\* The last page index.
LastPage(b) == totalPages(b) - 1

\* n pages of b.itemsPerPage cards hold every combination.
PagesSuffice(b, n) == n * b.itemsPerPage >= Len(b.combinations)

\* C16: with fixed props that yield at least one combination (itemsPerPage
\* is at least 1), after any sequence of Previous and Next clicks the page is
\* between 0 and totalPages - 1, totalPages being the least number of pages
\* of itemsPerPage cards that hold every combination; on page 0 Previous is
\* disabled and its updater returns 0, on the last page Next is disabled and
\* its updater returns the last page, so neither changes the page there.
C16_PageWithinRange ==
    \A i \in DOMAIN browser :
        LET b == browser[i]
        IN  Len(b.combinations) >= 1 =>
                /\ b.itemsPerPage >= 1
                /\ PagesSuffice(b, totalPages(b))
                /\ ~PagesSuffice(b, totalPages(b) - 1)
                /\ b.page \in 0..LastPage(b)
                /\ previousPage(b.page) \in 0..LastPage(b)
                /\ nextPage(b.page, totalPages(b)) \in 0..LastPage(b)
                /\ b.page = 0 => (PreviousDisabled(b) /\ previousPage(b.page) = b.page)
                /\ b.page = LastPage(b) =>
                        (NextDisabled(b) /\ nextPage(b.page, totalPages(b)) = b.page)

\* Next has been clicked up to the last of three pages or more.
C16_Witness ==
    /\ Len(browser) = 1
    /\ Len(browser[1].combinations) = 4
    /\ browser[1].itemsPerPage = 1
    /\ browser[1].page = 3
    /\ totalPages(browser[1]) = 4
    /\ NextDisabled(browser[1])

\* The indices (1-based) of the combinations page pg is to show: from
\* pg * itemsPerPage to min((pg + 1) * itemsPerPage, total) - 1, 0-based.
IndicesOfPage(b, pg) ==
    (pg * b.itemsPerPage + 1)..Min((pg + 1) * b.itemsPerPage, Len(b.combinations))

RECURSIVE PagesFrom(_, _)
\* What the pages from pg on show, one after the other.
PagesFrom(b, pg) ==
    IF pg > LastPage(b) THEN <<>>
    ELSE visibleCombinations(OnPage(b, pg)) \o PagesFrom(b, pg + 1)

\* C17: the pages partition the combinations.  Page pg shows the
\* combinations of IndicesOfPage(b, pg), in order; every combination is on
\* exactly one of the pages 0..totalPages - 1, and the pages one after the
\* other are the whole sequence; every page shows at least one and at most
\* itemsPerPage combinations, and only the last page shows fewer.
C17_PagesPartition ==
    \A i \in DOMAIN browser :
        LET b == browser[i]
            total == Len(b.combinations)
        IN  /\ \A pg \in 0..LastPage(b) :
                LET shown == visibleCombinations(OnPage(b, pg))
                    first == pg * b.itemsPerPage
                IN  /\ Len(shown) = Cardinality(IndicesOfPage(b, pg))
                    /\ \A n \in 1..Len(shown) : shown[n] = b.combinations[first + n]
                    /\ Len(shown) >= 1
                    /\ Len(shown) <= b.itemsPerPage
                    /\ Len(shown) < b.itemsPerPage => pg = LastPage(b)
            /\ \A k \in 1..total :
                Cardinality({pg \in 0..LastPage(b) : k \in IndicesOfPage(b, pg)}) = 1
            /\ PagesFrom(b, 0) = b.combinations
            /\ b.page \in 0..LastPage(b) =>
                    Len(visibleCombinations(b)) = Cardinality(IndicesOfPage(b, b.page))

\* Four combinations on pages of three: the browser is on its second and
\* last page, which shows the fourth combination alone.
C17_Witness ==
    /\ Len(browser) = 1
    /\ Len(browser[1].combinations) = 4
    /\ browser[1].itemsPerPage = 3
    /\ browser[1].page = 1
    /\ visibleCombinations(browser[1]) = <<browser[1].combinations[4]>>

(***************************************************************************)
(* C18: a run of Next clicks.  The browser is mounted on page 0 and Next   *)
(* is clicked as long as it is enabled; once it is disabled Previous may   *)
(* be clicked, which ends the recorded run.                                *)
(***************************************************************************)
InitNextRun ==
    /\ NoCallMade
    /\ clipboard = Null
    /\ \E p \in BrowserProps : browser = <<Mounted(p)>>
    /\ playground = <<>>
    /\ visited = <<0>>

ClickPreviousAtEnd == NextDisabled(browser[1]) /\ ClickPrevious(1)

NextNextRun == ClickNext(1) \/ ClickPreviousAtEnd

\* The user of the run clicks Next whenever it is enabled.
SpecNextRun == InitNextRun /\ [][NextNextRun]_vars /\ WF_vars(ClickNext(1))

Recording == visited # <<>>

\* The combinations (by index) shown on the pages visited so far.
ShownSoFar ==
    {k \in 1..Len(browser[1].combinations) :
        \E n \in 1..Len(visited) :
            \E m \in 1..Len(visibleCombinations(OnPage(browser[1], visited[n]))) :
                k = visited[n] * browser[1].itemsPerPage + m}

\* C18: from page 0 with at least one combination, clicking Next whenever it
\* is enabled reaches the last page; during the run the page is the number
\* of clicks made, so the last page is reached after exactly totalPages - 1
\* clicks, with every combination shown on a visited page; and once Next is
\* disabled it stays disabled until Previous is clicked.
C18_NextRunReachesLastPage ==
    /\ Len(browser[1].combinations) >= 1 =>
            <>(Recording /\ browser[1].page = LastPage(browser[1]))
    /\ [](Recording =>
            /\ visited = [n \in 1..(browser[1].page + 1) |-> n - 1]
            /\ Len(visited) - 1 <= Max(0, LastPage(browser[1])))
    /\ []((Recording /\ browser[1].page = LastPage(browser[1])) =>
            /\ Len(visited) - 1 = totalPages(browser[1]) - 1
            /\ ShownSoFar = 1..Len(browser[1].combinations)
            /\ NextDisabled(browser[1]))
    /\ [][(NextDisabled(browser[1]) /\ ~ClickPrevious(1)) => NextDisabled(browser[1])']_vars

\* The run has reached the fourth and last page with three clicks.
C18_Witness ==
    /\ visited = <<0, 1, 2, 3>>
    /\ browser[1].page = 3
    /\ totalPages(browser[1]) = 4
    /\ NextDisabled(browser[1])
    /\ ShownSoFar = 1..4

(***************************************************************************)
(* C20: what the four buttons of a browser change                          *)
(***************************************************************************)
\* The codes of the cards of the browser: formatJSX(name, { ...staticProps, ...c })
\* for the enumerated combinations c.
CardCodes(b) ==
    {Str(jsxCode(b, b.combinations[n])[2]) : n \in 1..Len(b.combinations)}

\* C20: a click on Previous or Next changes the page of its browser and
\* nothing else of it; a click on View JSX or Close Preview changes the
\* selected code and nothing else; after Close Preview the selected code is
\* null; and with fixed props the selected code is always null or the code
\* formatJSX(name, staticProps overlaid by c) of an enumerated combination
\* c, never the empty string.
C20_ButtonsChangeOnlyTheirHook ==
    /\ [](\A i \in DOMAIN browser :
            /\ browser[i].selectedCode = Null \/ browser[i].selectedCode \in CardCodes(browser[i])
            /\ browser[i].selectedCode # Str(<<>>))
    /\ [][\A i \in DOMAIN browser :
            /\ (ClickPrevious(i) \/ ClickNext(i)) =>
                /\ browser'[i].page # browser[i].page
                /\ browser'[i] = [browser[i] EXCEPT !.page = browser'[i].page]
            /\ (ClickViewJSX(i) \/ ClickClosePreview(i)) =>
                /\ browser'[i] = [browser[i] EXCEPT !.selectedCode = browser'[i].selectedCode]
                /\ browser'[i].page = browser[i].page
            /\ ClickViewJSX(i) => browser'[i].selectedCode \in CardCodes(browser[i])
            /\ ClickClosePreview(i) => browser'[i].selectedCode = Null
         ]_vars

\* A code was selected on the first page, Next was clicked, and the preview
\* still shows the code of the first combination.
C20_Witness ==
    /\ Len(browser) = 1
    /\ browser[1].name = <<"A">>
    /\ browser[1].staticProps = <<>>
    /\ browser[1].propOptions = << <<<<"a">>, Arr(<<Str(<<"x">>), Bool(TRUE)>>)>> >>
    /\ browser[1].itemsPerPage = 1
    /\ browser[1].page = 1
    /\ browser[1].selectedCode =
            Str(<<"<", "A", "\n", " ", " ", "a", "=", "\"", "x", "\"", "\n", "/", ">">>)

(***************************************************************************)
(* C19: a browser whose parent renders it again with other props.  The     *)
(* hooks keep their values across renders; useMemo recomputes the          *)
(* combinations when propOptions is another object.                        *)
(***************************************************************************)
\* A mapping the parent passes next: the same one, the mapping without its
\* last property, or with the last candidate of one list removed.
NextOptions(o) ==
    {o}
    \cup (IF Len(o) >= 1 THEN {SubSeq(o, 1, Len(o) - 1)} ELSE {})
    \cup {[o EXCEPT ![n] = <<o[n][1],
                             Arr(SubSeq(o[n][2][2], 1, Len(o[n][2][2]) - 1))>>] :
            n \in {m \in 1..Len(o) : IsArray(o[m][2]) /\ Len(o[m][2][2]) >= 1}}

\* render with new propOptions and itemsPerPage
Rerender(i) ==
    /\ i \in DOMAIN browser
    /\ \E o \in NextOptions(browser[i].propOptions) :
        \E n \in PerPages :
            /\ browser' = [browser EXCEPT
                    ![i].propOptions = o,
                    ![i].itemsPerPage = WithDefault(n, Num(DefaultItemsPerPage))[2],
                    ![i].combinations = getAllCombinations(o)]
            /\ browser' # browser
    /\ UNCHANGED <<playground, visited>>
    /\ UNCHANGED <<enumVars, machineVars, serVars, clipboard>>

RerenderProps ==
    {p \in BrowserProps : p.name = Undefined /\ p.staticProps = Undefined}

InitRerender ==
    /\ NoCallMade
    /\ \E p \in RerenderProps : browser = <<Mounted(p)>>
    /\ playground = <<>>
    /\ visited = <<>>
    /\ clipboard = Null

Rerendered == \E i \in DOMAIN browser : Rerender(i)

NextRerender ==
    PreviousClicked \/ NextClicked \/ ViewJSXClicked \/ ClosePreviewClicked \/ Rerendered

SpecRerender == InitRerender /\ [][NextRerender]_vars

\* C19 as claimed: in every reachable state with at least one combination,
\* renders with other propOptions or itemsPerPage included, the visible page
\* is not empty and page + 1 is at most the total page count shown.
C19_Original ==
    \A i \in DOMAIN browser :
        Len(browser[i].combinations) >= 1 =>
            /\ Len(visibleCombinations(browser[i])) >= 1
            /\ browser[i].page + 1 <= totalPages(browser[i])

(***************************************************************************)
(* C21: the props of a card                                                *)
(***************************************************************************)
\* given is staticProps overlaid by combo: it has the keys of both and no
\* other, the value of combo on each key of combo, and the static value on
\* each other key.
IsOverlay(given, static, combo) ==
    /\ KeySet(given) = KeySet(static) \cup KeySet(combo)
    /\ NoDuplicates(ObjectKeys(given))
    /\ \A n \in 1..Len(combo) : Get(given, combo[n][1]) = combo[n][2]
    /\ \A n \in 1..Len(static) :
        ~HasKey(combo, static[n][1]) => Get(given, static[n][1]) = static[n][2]

\* C21: for every combination a browser shows, the props the component
\* receives and the props serialized for View JSX are one and the same
\* property set, staticProps overlaid by the combination; the code View JSX
\* selects is the serialization of that set.
C21_CardPropsAreOverlay ==
    /\ [](\A i \in DOMAIN browser :
            \A n \in 1..Len(visibleCombinations(browser[i])) :
                LET b == browser[i]
                    combo == visibleCombinations(b)[n]
                IN  /\ IsOverlay(componentProps(b, combo), b.staticProps, combo)
                    /\ IsOverlay(combinedProps(b, combo), b.staticProps, combo)
                    /\ componentProps(b, combo) = combinedProps(b, combo)
                    /\ jsxCode(b, combo) = formatJSX(b.name, componentProps(b, combo)))
    /\ [][\A i \in DOMAIN browser :
            ClickViewJSX(i) =>
                \E n \in 1..Len(visibleCombinations(browser[i])) :
                    browser'[i].selectedCode =
                        Str(formatJSX(browser[i].name,
                                      componentProps(browser[i],
                                                     visibleCombinations(browser[i])[n]))[2])
         ]_vars

\* Static props a = "s" and c; the card of the combination a = "x" is
\* selected: the code shows the combination's a and the static c.
C21_Witness ==
    /\ Len(browser) = 1
    /\ browser[1].name = <<"A">>
    /\ browser[1].staticProps = << <<<<"a">>, Str(<<"s">>)>>, <<<<"c">>, Fn>> >>
    /\ browser[1].propOptions = << <<<<"a">>, Arr(<<Str(<<"x">>)>>)>> >>
    /\ browser[1].selectedCode =
            Str(<<"<", "A", "\n", " ", " ", "a", "=", "\"", "x", "\"", "\n",
                  " ", " ", "c", "=", "{", "u", "n", "d", "e", "f", "i", "n", "e", "d", "}",
                  "\n", "/", ">">>)

(***************************************************************************)
(* A playground in use: controls changed one per render or two in one      *)
(* batch, and the shown code copied.                                       *)
(***************************************************************************)
RECURSIVE ApplyQueuedFrom(_, _, _)
ApplyQueuedFrom(state, queue, n) ==
    IF n > Len(queue) THEN state
    ELSE ApplyQueuedFrom(handleChange(state, queue[n][1], queue[n][2]), queue, n + 1)

\* setCurrentProps({ ...currentProps, [key]: value }): every queued update
\* computed from the props of the last render, so that the last one wins
ApplyQueuedStale(base, queue) ==
    IF queue = <<>> THEN base
    ELSE handleChange(base, queue[Len(queue)][1], queue[Len(queue)][2])

\* The state after a render that follows the calls setCurrentProps((prev) => ...)
\* of queue: each updater receives the result of the one before it.
ApplyQueued(base, queue) == ApplyQueuedFrom(base, queue, 1)

\* The calls handleChange(key, value) the controls of a config can make.
ControlCalls(config) ==
    UNION {{<<config.props[n][1], value>> : value \in ControlValues(config.props[n][2])} :
                n \in 1..Len(config.props)}

\* two controls changed before the next render
ChangeTogether(i) ==
    /\ i \in DOMAIN playground
    /\ \E first, second \in ControlCalls(playground[i].config) :
        playground' = [playground EXCEPT
            ![i].currentProps = ApplyQueued(playground[i].currentProps, <<first, second>>),
            ![i].changed = TRUE]
    /\ UNCHANGED <<browser, visited>>
    /\ UNCHANGED <<enumVars, machineVars, serVars, clipboard>>

\* {generateJSXCode()} in the <pre> of the last render
displayedCode(pg) == generateJSXCode(pg.config.name, pg.currentProps)

\* Copy JSX writing the code of the first render
CopyJSXOfFirstRender(i) ==
    /\ i \in DOMAIN playground
    /\ IsOk(generateJSXCode(playground[i].config.name, initialState(playground[i].config)))
    /\ clipboard' = Str(generateJSXCode(playground[i].config.name,
                                        initialState(playground[i].config))[2])
    /\ UNCHANGED <<browser, playground, visited>>
    /\ UNCHANGED <<enumVars, machineVars, serVars>>

\* click on Copy JSX: navigator.clipboard.writeText(generateJSXCode())
CopyJSX(i) ==
    /\ i \in DOMAIN playground
    /\ IsOk(generateJSXCode(playground[i].config.name, playground[i].currentProps))
    /\ clipboard' = Str(generateJSXCode(playground[i].config.name,
                                        playground[i].currentProps)[2])
    /\ UNCHANGED <<browser, playground, visited>>
    /\ UNCHANGED <<enumVars, machineVars, serVars>>

\* A config whose props have defaults that are written out.
DefaultedConfig ==
    [name |-> <<"B", "o", "x">>,
     props |-> <<
        <<<<"b">>, Meta("boolean", Undefined, Bool(TRUE))>>,
        <<<<"d">>, Meta("string", Undefined, Str(<<"s">>))>> >>]

UsedConfigs == {PlainConfig, DefaultedConfig}

InitPlaygroundUse ==
    /\ NoCallMade
    /\ clipboard = Null
    /\ browser = <<>>
    /\ \E c \in UsedConfigs : playground = <<MountedPlayground(c)>>
    /\ visited = <<>>

ControlsChangedTogether == \E i \in DOMAIN playground : ChangeTogether(i)
CopyJSXClicked == \E i \in DOMAIN playground : CopyJSX(i)

NextPlaygroundUse == ControlChanged \/ ControlsChangedTogether \/ CopyJSXClicked

SpecPlaygroundUse == InitPlaygroundUse /\ [][NextPlaygroundUse]_vars

(***************************************************************************)
(* C22: what handleChange changes                                          *)
(***************************************************************************)
\* after is before with key set to value and every other key as it was.
SetsOnly(after, before, key, value) ==
    /\ ObjectKeys(after) = ObjectKeys(before)
    /\ Get(after, key) = value
    /\ \A n \in 1..Len(before) : before[n][1] # key => after[n] = before[n]

\* C22: after any sequence of control changes the keys of the current props
\* are the keys of the prop config; a call handleChange(key, value) sets
\* that key to value and leaves the value of every other key as it was; and
\* two changes of different keys queued before the next render both take
\* effect.
C22_HandleChangeSetsOneKey ==
    /\ [](\A i \in DOMAIN playground :
            LET pg == playground[i]
                offered == ControlCalls(pg.config)
            IN  /\ KeySet(pg.currentProps) = KeySet(pg.config.props)
                /\ NoDuplicates(ObjectKeys(pg.currentProps))
                /\ \A c \in offered :
                    SetsOnly(handleChange(pg.currentProps, c[1], c[2]), pg.currentProps, c[1], c[2])
                /\ \A c, d \in offered :
                    c[1] # d[1] =>
                        LET after == ApplyQueued(pg.currentProps, <<c, d>>)
                        IN  /\ ObjectKeys(after) = ObjectKeys(pg.currentProps)
                            /\ Get(after, c[1]) = c[2]
                            /\ Get(after, d[1]) = d[2]
                            /\ \A n \in 1..Len(after) :
                                after[n][1] \notin {c[1], d[1]} => after[n] = pg.currentProps[n])
    /\ [][\A i \in DOMAIN playground :
            /\ Change(i) =>
                \E c \in ControlCalls(playground[i].config) :
                    SetsOnly(playground'[i].currentProps, playground[i].currentProps, c[1], c[2])
            /\ ChangeTogether(i) =>
                \E c, d \in ControlCalls(playground[i].config) :
                    /\ Get(playground'[i].currentProps, d[1]) = d[2]
                    /\ c[1] # d[1] => Get(playground'[i].currentProps, c[1]) = c[2]
                    /\ \A n \in 1..Len(playground[i].currentProps) :
                        playground[i].currentProps[n][1] \notin {c[1], d[1]} =>
                            playground'[i].currentProps[n] = playground[i].currentProps[n]
         ]_vars

\* The select and the checkbox of the plain config were changed together,
\* and both values are in the current props, next to the untouched ones.
C22_Witness ==
    /\ Len(playground) = 1
    /\ playground[1].config = PlainConfig
    /\ playground[1].changed
    /\ playground[1].currentProps =
            << <<<<"a">>, Str(<<"y">>)>>, <<<<"b">>, Bool(TRUE)>>,
               <<<<"c">>, Str(<<>>)>>, <<<<"d">>, Str(<<>>)>> >>

(***************************************************************************)
(* C23: the code the playground shows and copies                           *)
(***************************************************************************)
\* the entry's value is not the empty string, undefined or false
ShowsAttribute(e) == e[2] \notin {Str(<<>>), Undefined, Bool(FALSE)}

\* the names of the attributes of the displayed code, in order
AttributeNames(pg) ==
    LET list == generateAttributes(pg.currentProps)[2]
    IN  [n \in 1..Len(list) |-> AttrName(list[n])]

\* C23: the displayed JSX code and the text Copy JSX writes are the same
\* string; its attribute names are exactly the keys of the current props
\* whose value is not the empty string, undefined or false, in the order of
\* the prop config; a control change that leaves false or the empty string
\* under a key removes that key's attribute, and one that leaves true or a
\* non-empty text restores it.
C23_ShownCodeIsCopiedCode ==
    /\ [](\A i \in DOMAIN playground :
            LET pg == playground[i]
            IN  /\ IsOk(displayedCode(pg))
                /\ ObjectKeys(pg.currentProps) = ObjectKeys(pg.config.props)
                /\ AttributeNames(pg) = ObjectKeys(SelectSeq(pg.currentProps, ShowsAttribute))
                /\ displayedCode(pg) =
                        Ok(TagText(pg.config.name, generateAttributes(pg.currentProps)[2])))
    /\ [][\A i \in DOMAIN playground :
            /\ CopyJSX(i) =>
                /\ clipboard' = Str(displayedCode(playground[i])[2])
                /\ clipboard' = Str(displayedCode(playground'[i])[2])
            /\ (Change(i) \/ ChangeTogether(i)) =>
                \A n \in 1..Len(playground'[i].currentProps) :
                    LET key == playground'[i].currentProps[n][1]
                        value == playground'[i].currentProps[n][2]
                        list == generateAttributes(playground'[i].currentProps)[2]
                    IN  /\ value \in {Bool(FALSE), Str(<<>>)} => NoAttrNamed(list, key)
                        /\ value = Bool(TRUE) =>
                            \E a \in 1..Len(list) : list[a] = BareAttr(key)
                        /\ IsNonEmptyString(value) =>
                            \E a \in 1..Len(list) : list[a] = QuotedAttr(key, value[2])
         ]_vars

\* The checkbox of b, checked by default, was unchecked and the code copied:
\* the copied text is the displayed one and has the attribute d alone.
C23_Witness ==
    /\ Len(playground) = 1
    /\ playground[1].config = DefaultedConfig
    /\ playground[1].currentProps =
            << <<<<"b">>, Bool(FALSE)>>, <<<<"d">>, Str(<<"s">>)>> >>
    /\ AttributeNames(playground[1]) = << <<"d">> >>
    /\ clipboard = Str(displayedCode(playground[1])[2])
    /\ clipboard = Str(<<"<", "B", "o", "x", "\n", " ", " ", "d", "=", "\"", "s", "\"", "\n", "/", ">">>)

(***************************************************************************)
(* C24: the two serializers on the same input                              *)
(***************************************************************************)
\* no value of the property set is an object carrying a $$typeof field
NoElementValue(prs) == \A i \in 1..Len(prs) : ~IsElement(prs[i][2])

\* C24: for every component name and every property set none of whose
\* values is a rendered-element object, formatJSX(name, props) and
\* generateJSXCode of a playground with that name and those current props
\* have the same outcome: the same string, attribute for attribute, or the
\* same exception; and the results of the two calls made are equal.
C24_SerializersAgree ==
    NoElementValue(props) =>
        /\ formatJSX(name, props) = generateJSXCode(name, props)
        /\ formatAttributes(props) = generateAttributes(props)
        /\ fmtOut # NotCalled /\ genOut # NotCalled => fmtOut = genOut
        /\ Returned(fmtOut) /\ genOut # NotCalled => Returned(genOut) /\ TextOf(fmtOut) = TextOf(genOut)

\* Both serializers were called on a flag and a plain object and returned
\* the same text, with two attributes.
C24_Witness ==
    /\ Returned(fmtOut)
    /\ Returned(genOut)
    /\ props = << <<<<"a">>, Bool(TRUE)>>,
                  <<<<"b">>, Obj(<< <<<<"k">>, Bool(TRUE)>>, <<<<"f">>, Fn>> >>)>> >>
    /\ NoElementValue(props)
    /\ Len(generateAttributes(props)[2]) = 2
    /\ fmtOut = genOut

====
